---- MODULE Spec2Model ----
(***************************************************************************)
(* Model of plantowatch-ranker: the AniList request executor               *)
(* (anilist_api.py: _rate_limit, _make_request), the batch pipeline with   *)
(* its checkpoints (collect_userdata.py) and the user-set collector with   *)
(* the completer crawl (collect_ratings.py, fetchAnimeCompleters).         *)
(*                                                                         *)
(* The module holds three specifications over one set of variables:        *)
(*   SpecExec     one client issuing successive _make_request calls        *)
(*   SpecPipe     main() of collect_userdata.py, runs and resumed runs     *)
(*   SpecCollect  main() of collect_ratings.py driving the crawler         *)
(* A specification leaves the variables of the other two at their initial  *)
(* values.                                                                 *)
(***************************************************************************)
EXTENDS Integers, Sequences, FiniteSets, TLC

VARIABLES
    \* ---- request executor (anilist_api.py) ----
    epc,            \* position in _make_request: idle, ratelimit, post, handle
    attempt,        \* loop variable of "for attempt in range(max_retries)"
    posts,          \* POSTs issued by the current _make_request call
    waits,          \* backoff sleeps performed by the current call, in order
    response,       \* local "response": Unbound, or the kind of the last HTTP response
    data,           \* local "data": Unbound, or the kind of the last parsed 404 body
    cur,            \* what the POST just issued produced
    result,         \* how the current call ended: none, returned, or the exception
    returnedBody,   \* index of the attempt whose decoded body was returned (0: none)
    reqNo,          \* number of _make_request calls started on this client
    sinceLast,      \* ticks elapsed since last_request_time was set (saturates at Far)
    rlReturns,      \* returns of _rate_limit on this client
    lastGap,        \* ticks between the last two returns of _rate_limit (saturated)
    totalPosts,     \* POSTs issued on this client
    sincePost,      \* ticks elapsed since the last POST was issued (saturated)
    postGap,        \* ticks between the last two POSTs (saturated)
    allHttpFail,    \* every failed attempt of this call was an unclassified HTTP error
    sawNetErr,      \* some attempt of this call had a transport failure, no response
    call,           \* the last fetch* call: its function, which identifying arguments were
                    \* bound, and the users it is about
    named,          \* users_in_batch of the exception the call raised (lines 77, 80)
    entryRl,        \* returns of _rate_limit on this client when that call was made
    entryPosts,     \* POSTs issued on this client when that call was made
    \* ---- batch pipeline (collect_userdata.py) ----
    ppc,            \* position of main(): off, gen, yield, end, exit, killed
    mode,           \* "list" (--userid-list) or "checkpoint" (--checkpoint-file)
    users,          \* the full user-id list the crawl is about
    batch_size,     \* args.batch_size
    status,         \* mocked upstream: user id -> ok, private, notfound, null
    run,            \* number of the current process run (1, 2, ...)
    user_ids,       \* user_ids of the current run
    batch_num,      \* loop variable of fetch_and_store_ratings
    genRatings,     \* "ratings" of fetch_and_store_ratings (the generator)
    mainOwn,        \* lists of main's "ratings" that main alone holds (loaded ones)
    mainShared,     \* keys of main's "ratings" whose list is the generator's list object
    yielded,        \* the tuple the generator handed to main, or NoYield
    ckpt,           \* the checkpoint file
    resultFile,     \* the result file (--ratings-out)
    sinceCkpt,      \* batches processed since the last emitted checkpoint (this run)
    emitted,        \* checkpoints emitted by the generator in this run
    skipped,        \* users of batches skipped for PrivateUser / UserNotFound (this run)
    reqError,       \* the generator hit AnilistRequestError in this run
    exitCode,       \* exit status of the run, -1 while it is running
    fetched,        \* batch indices fetched in this run, in order
    batch_anime,    \* "batch_anime" of the generator: the dict the last successful
                    \* fetchCompletedAnime returned, as <<user, entries>> pairs
    savedInRun,     \* this run persisted a checkpoint
    \* ---- user-set collector and crawler (collect_ratings.py, fetchAnimeCompleters) ----
    cpc,            \* position of main(): off, start, next, crawl, done, or the exception
                    \* that ended it
    n_others,       \* args.n_others
    seedCompleted,  \* media ids of the seed user's completed list (upstream)
    seedPlanning,   \* media ids of the seed user's planning list (upstream)
    items,          \* media ids of search_set still to crawl (iteration order)
    other_users,    \* the set other_users
    users_added,    \* users_added of the current item
    gpc,            \* the generator fetchAnimeCompleters of the current item: none,
                    \* created (body not started), requested, raised
    page,           \* "page" of the generator
    requests,       \* first pages of the windows requested for the current item
    outFile         \* the user-set output file

execVars == <<epc, attempt, posts, waits, response, data, cur, result, returnedBody,
              reqNo, sinceLast, rlReturns, lastGap, totalPosts, sincePost, postGap,
              allHttpFail, sawNetErr, call, named, entryRl, entryPosts>>
pipeVars == <<ppc, mode, users, batch_size, status, run, user_ids, batch_num,
              genRatings, mainOwn, mainShared, yielded, ckpt, resultFile, sinceCkpt,
              emitted, skipped, reqError, exitCode, fetched, batch_anime, savedInRun>>
collectVars == <<cpc, n_others, seedCompleted, seedPlanning, items, other_users,
                 users_added, gpc, page, requests, outFile>>
vars == <<execVars, pipeVars, collectVars>>

-----------------------------------------------------------------------------
(* Bounds of the model                                                     *)

\* Resolution of the clock: ticks per second.
TicksPerSecond == 2
\* time.sleep may return late by up to this many ticks.
MaxOversleep == 1
\* A POST takes up to this many ticks.
MaxLatency == 2
\* Successive _make_request calls on one client.
MaxRequests == 2
\* Most users of one fetchCompletedAnime call.
MaxBatchLen == 2

(* Program constants                                                       *)

\* max_retries
MaxRetries == 10
\* wait_time = 60 * (attempt + 1)
BackoffUnit == 60
\* "if current_time - self.last_request_time < 1", in seconds
RateInterval == 1
\* pages_per_query: int = 5
DefaultPagesPerQuery == 5

Unbound == "unbound"

Min(a, b) == IF a < b THEN a ELSE b

\* The minimum spacing in ticks.
IntervalTicks == RateInterval * TicksPerSecond
\* The clock readings are kept relative and saturate here: Far stands for
\* "Far ticks or more", which is past every comparison the code makes.
Far == IntervalTicks + 1

Sat(t) == Min(t, Far)

-----------------------------------------------------------------------------
(* anilist_api.py: the upstream's answers to one POST                      *)

\* ok          2xx with a JSON body
\* http5xx     an error status other than 404 (raise_for_status raises HTTPError)
\* e404private 404, JSON body, errors[0].message = 'Private User'
\* e404nouser  404, JSON body, errors[0].message = 'User not found'
\* e404other   404, JSON body with another message or without 'errors'
\* e404nonjson 404 whose body is not JSON
\* neterr      requests.post raises (ConnectionError, Timeout): no response object
HttpFailures == {"http5xx", "e404private", "e404nouser", "e404other", "e404nonjson"}
Outcomes == {"ok", "neterr"} \cup HttpFailures
\* The HTTP failures that are no classified 404.
RetryableHttp == {"http5xx", "e404other", "e404nonjson"}

Is404(r) == r \in {"e404private", "e404nouser", "e404other", "e404nonjson"}

\* response.json() of a 404: the parsed body, or Unbound when json() raises
\* JSONDecodeError ("pass": data keeps what it held).
ParsedBody(r, old) == IF r = "e404nonjson" THEN old ELSE r

\* Lines 74-81: what the parsed 404 body is classified as.
Classify_NoShortCircuit(d) == "retry"

Classify(d) ==
    IF d = "e404private" THEN "AnilistPrivateUser"
    ELSE IF d = "e404nouser" THEN "AnilistUserNotFound"
    ELSE "retry"

\* Line 83: wait_time = 60 * (attempt + 1)
WaitTime_FromZero(a) == BackoffUnit * a

WaitTime(a) == BackoffUnit * (a + 1)

\* Lines 40-41: the sleep _rate_limit asks for, given current_time - last_request_time.
SleepNeeded_Short(elapsed) ==
    IF elapsed < IntervalTicks THEN IntervalTicks - elapsed - 1 ELSE 0

SleepNeeded(elapsed) ==
    IF elapsed < IntervalTicks THEN IntervalTicks - elapsed ELSE 0

\* Line 95: whether another attempt follows the failed attempt a.
MayRetry(a) == a < MaxRetries - 1

\* Lines 121 and 222: the check of the two identifying arguments (usernames /
\* userids, username / userid); a and b tell whether each is bound (not None).
\* The call goes on when neither "both None" nor "both bound" holds.
ArgsValid_AcceptBoth(a, b) == a \/ b

ArgsValid(a, b) == ~((~a /\ ~b) \/ (a /\ b))

\* The lists of users (names or ids) calls are made about: k distinct users in
\* descending order, so that the order of a list is not the order of its values.
FirstUser == 7

UserLists == {[i \in 1..k |-> FirstUser + k - i] : k \in 1..MaxBatchLen}

\* The public calls that reach _make_request, with every binding of their two
\* identifying arguments (usernames, userids of fetchCompletedAnime; userid,
\* username of fetchPlanningAnime, which is about one user).
FetchCalls ==
    {c \in [fn : {"fetchCompletedAnime", "fetchPlanningAnime"},
            a : BOOLEAN, b : BOOLEAN, users : UserLists] :
        c.fn = "fetchPlanningAnime" => Len(c.users) = 1}

NoCall == [fn |-> "none", a |-> FALSE, b |-> FALSE, users |-> <<>>]

\* Strings whose prefixes matter are sequences of characters.
StartsWith(str, prefix) ==
    Len(str) >= Len(prefix) /\ SubSeq(str, 1, Len(prefix)) = prefix

DigitChars == <<"0", "1", "2", "3", "4", "5", "6", "7", "8", "9">>

\* The decimal digits of n, as an f-string renders {i}.
RECURSIVE Digits(_)
Digits(n) ==
    IF n < 10 THEN <<DigitChars[n + 1]>>
    ELSE Digits(n \div 10) \o <<DigitChars[(n % 10) + 1]>>

\* Line 165: var_name = f"{'username' if is_username else 'id'}{i}"
VarName_Alias(is_username, i) == <<"u">> \o Digits(i)

VarName(is_username, i) ==
    (IF is_username THEN <<"u", "s", "e", "r", "n", "a", "m", "e">> ELSE <<"i", "d">>)
    \o Digits(i)

\* The dict "variables" a call hands to _make_request, as <<key, value>> pairs
\* in insertion order: lines 164-175 (is_username is "usernames is not None")
\* and lines 242-246.
Variables(c) ==
    IF c.fn = "fetchCompletedAnime"
    THEN [i \in 1..Len(c.users) |-> <<VarName(c.a, i), c.users[i]>>]
    ELSE (IF c.a THEN <<<<(<<"i", "d">>), c.users[1]>>>>
                 ELSE <<<<(<<"u", "s", "e", "r", "n", "a", "m", "e">>), c.users[1]>>>>)

\* Lines 77 and 80: [value for key, value in variables.items()
\*                    if key.startswith(('username', 'id'))]
RECURSIVE UsersInBatch(_)
UsersInBatch(variables) ==
    IF variables = <<>> THEN <<>>
    ELSE (IF \/ StartsWith(Head(variables)[1], <<"u", "s", "e", "r", "n", "a", "m", "e">>)
             \/ StartsWith(Head(variables)[1], <<"i", "d">>)
          THEN <<Head(variables)[2]>> ELSE <<>>)
         \o UsersInBatch(Tail(variables))

ExecInit ==
    /\ epc = "idle"
    /\ attempt = 0
    /\ posts = 0
    /\ waits = <<>>
    /\ response = Unbound
    /\ data = Unbound
    /\ cur = "none"
    /\ result = "none"
    /\ returnedBody = 0
    /\ reqNo = 0
    /\ sinceLast = Far            \* last_request_time = 0, the epoch
    /\ rlReturns = 0
    /\ lastGap = Far
    /\ totalPosts = 0
    /\ sincePost = Far
    /\ postGap = Far
    /\ allHttpFail = TRUE
    /\ sawNetErr = FALSE
    /\ call = NoCall
    /\ named = <<>>
    /\ entryRl = 0
    /\ entryPosts = 0

\* Lines 121-122, 222-223: a call whose identifying arguments are both bound or
\* both None raises ValueError; nothing of _make_request runs.
RejectCall ==
    /\ epc = "idle"
    /\ \E c \in FetchCalls :
         /\ ~ArgsValid(c.a, c.b)
         /\ call' = c
    /\ named' = <<>>
    /\ entryRl' = rlReturns
    /\ entryPosts' = totalPosts
    /\ attempt' = 0
    /\ posts' = 0
    /\ waits' = <<>>
    /\ response' = Unbound
    /\ data' = Unbound
    /\ cur' = "none"
    /\ result' = "ValueError"
    /\ returnedBody' = 0
    /\ allHttpFail' = TRUE
    /\ sawNetErr' = FALSE
    /\ UNCHANGED <<epc, reqNo, sinceLast, rlReturns, lastGap, totalPosts, sincePost,
                   postGap>>
    /\ UNCHANGED <<pipeVars, collectVars>>

\* A caller (fetchCompletedAnime, fetchPlanningAnime with arguments that pass
\* the check of lines 121 / 222) builds its query and enters _make_request
\* (lines 184, 248); time has passed since the previous call ended.
StartRequest ==
    /\ epc = "idle"
    /\ reqNo < MaxRequests
    /\ \E c \in FetchCalls :
         /\ ArgsValid(c.a, c.b)
         /\ call' = c
    /\ named' = <<>>
    /\ entryRl' = rlReturns
    /\ entryPosts' = totalPosts
    /\ \E d \in 0..MaxLatency :
         /\ sinceLast' = Sat(sinceLast + d)
         /\ sincePost' = Sat(sincePost + d)
    /\ reqNo' = reqNo + 1
    /\ attempt' = 0
    /\ posts' = 0
    /\ waits' = <<>>
    /\ response' = Unbound
    /\ data' = Unbound
    /\ cur' = "none"
    /\ result' = "none"
    /\ returnedBody' = 0
    /\ allHttpFail' = TRUE
    /\ sawNetErr' = FALSE
    /\ epc' = "ratelimit"
    /\ UNCHANGED <<rlReturns, lastGap, totalPosts, postGap>>
    /\ UNCHANGED <<pipeVars, collectVars>>

\* _rate_limit, lines 39-42: read the clock, sleep for what is missing of the
\* interval, set last_request_time to the clock after the sleep.
RateLimit ==
    /\ epc = "ratelimit"
    /\ \E over \in 0..MaxOversleep :
         LET slept == IF SleepNeeded(sinceLast) > 0
                      THEN SleepNeeded(sinceLast) + over ELSE 0
         IN  /\ lastGap' = Sat(sinceLast + slept)
             /\ sincePost' = Sat(sincePost + slept)
    /\ sinceLast' = 0
    /\ rlReturns' = rlReturns + 1
    /\ epc' = "post"
    /\ UNCHANGED <<attempt, posts, waits, response, data, cur, result, returnedBody,
                   reqNo, totalPosts, postGap, allHttpFail, sawNetErr>>
    /\ UNCHANGED <<call, named, entryRl, entryPosts>>
    /\ UNCHANGED <<pipeVars, collectVars>>

\* Line 64-65: requests.post, issued right after _rate_limit returned, and
\* raise_for_status. "response" is assigned only when post returns a response.
Post ==
    /\ epc = "post"
    /\ \E kind \in Outcomes, d \in 0..MaxLatency :
         /\ cur' = kind
         /\ response' = IF kind = "neterr" THEN response ELSE kind
         /\ sinceLast' = Sat(sinceLast + d)
         /\ sincePost' = Sat(d)
         /\ allHttpFail' = (allHttpFail /\ kind \in RetryableHttp \cup {"ok"})
         /\ sawNetErr' = (sawNetErr \/ kind = "neterr")
    /\ posts' = posts + 1
    /\ totalPosts' = totalPosts + 1
    /\ postGap' = sincePost
    /\ epc' = "handle"
    /\ UNCHANGED <<attempt, waits, data, result, returnedBody, reqNo, rlReturns, lastGap>>
    /\ UNCHANGED <<call, named, entryRl, entryPosts>>
    /\ UNCHANGED <<pipeVars, collectVars>>

\* How the except clause of lines 67-100 ends for the locals it finds:
\* the exception raised, or "retry" for the backoff path.
ExceptOutcome(resp, dat) ==
    IF resp = Unbound THEN "UnboundLocalError"            \* line 68 reads response
    ELSE IF Is404(resp)
         THEN IF ParsedBody(resp, dat) = Unbound
              THEN "UnboundLocalError"                    \* line 74 reads data
              ELSE Classify(ParsedBody(resp, dat))
         ELSE "retry"

\* Line 66: return response.json()
HandleSuccess ==
    /\ epc = "handle"
    /\ cur = "ok"
    /\ result' = "returned"
    /\ returnedBody' = posts
    /\ epc' = "idle"
    /\ UNCHANGED <<attempt, posts, waits, response, data, cur, reqNo, sinceLast,
                   rlReturns, lastGap, totalPosts, sincePost, postGap, allHttpFail,
                   sawNetErr>>
    /\ UNCHANGED <<call, named, entryRl, entryPosts>>
    /\ UNCHANGED <<pipeVars, collectVars>>

\* Lines 68-81, and the reads of unbound locals: the call ends with an exception
\* other than AnilistRequestError, without sleeping.
HandleRaise ==
    /\ epc = "handle"
    /\ cur # "ok"
    /\ ExceptOutcome(response, data) # "retry"
    /\ result' = ExceptOutcome(response, data)
    /\ data' = IF response # Unbound /\ Is404(response)
               THEN ParsedBody(response, data) ELSE data
    /\ epc' = "idle"
    /\ UNCHANGED <<attempt, posts, waits, response, cur, returnedBody, reqNo, sinceLast,
                   rlReturns, lastGap, totalPosts, sincePost, postGap, allHttpFail,
                   sawNetErr>>
    /\ named' = IF ExceptOutcome(response, data) \in {"AnilistPrivateUser", "AnilistUserNotFound"}
                THEN UsersInBatch(Variables(call)) ELSE named
    /\ UNCHANGED <<call, entryRl, entryPosts>>
    /\ UNCHANGED <<pipeVars, collectVars>>

\* Lines 83-97: the failure is retryable and attempts are left: log, sleep
\* wait_time, next iteration.
HandleRetry ==
    /\ epc = "handle"
    /\ cur # "ok"
    /\ ExceptOutcome(response, data) = "retry"
    /\ MayRetry(attempt)
    /\ data' = IF Is404(response) THEN ParsedBody(response, data) ELSE data
    /\ waits' = Append(waits, WaitTime(attempt))
    /\ sinceLast' = Far
    /\ sincePost' = Far
    /\ attempt' = attempt + 1
    /\ epc' = "ratelimit"
    /\ UNCHANGED <<posts, response, cur, result, returnedBody, reqNo, rlReturns, lastGap,
                   totalPosts, postGap, allHttpFail, sawNetErr>>
    /\ UNCHANGED <<call, named, entryRl, entryPosts>>
    /\ UNCHANGED <<pipeVars, collectVars>>

\* Lines 98-100: the last attempt failed: raise AnilistRequestError from e.
HandleExhausted ==
    /\ epc = "handle"
    /\ cur # "ok"
    /\ ExceptOutcome(response, data) = "retry"
    /\ ~MayRetry(attempt)
    /\ data' = IF Is404(response) THEN ParsedBody(response, data) ELSE data
    /\ result' = "AnilistRequestError"
    /\ epc' = "idle"
    /\ UNCHANGED <<attempt, posts, waits, response, cur, returnedBody, reqNo, sinceLast,
                   rlReturns, lastGap, totalPosts, sincePost, postGap, allHttpFail,
                   sawNetErr>>
    /\ UNCHANGED <<call, named, entryRl, entryPosts>>
    /\ UNCHANGED <<pipeVars, collectVars>>

ExecNext ==
    \/ RejectCall
    \/ StartRequest
    \/ RateLimit
    \/ Post
    \/ HandleSuccess
    \/ HandleRaise
    \/ HandleRetry
    \/ HandleExhausted

-----------------------------------------------------------------------------
(* collect_userdata.py: the batch pipeline                                 *)

\* Longest user-id list.
MaxUsers == 22
\* Largest args.batch_size.
MaxBatchSize == 2
\* Process runs in one behaviour: the first run and the resumed ones.
MaxRuns == 2

\* "(batch_num + 1) % 20 == 0"
CheckpointEvery == 20

\* str(n): the decimal string of n, kept apart from the number n.
Str(n) == <<"str", n>>

\* The number a decimal string stands for.
IntOf(s) == s[2]

EmptyDict == [k \in {} |-> <<>>]

\* The mocked upstream's completed list of user u: everyone rated media 1, every
\* third user media 2, every second user media 3 (users 1..20), 4 (21..40), ...
UpstreamScore(u, m) == (7 * u + m) % 101

UpstreamEntry(u, m) == [mediaId |-> m, score |-> UpstreamScore(u, m)]

UpstreamCompleted(u) ==
    <<UpstreamEntry(u, 1)>>
    \o (IF u % 3 = 0 THEN <<UpstreamEntry(u, 2)>> ELSE <<>>)
    \o (IF u % 2 = 0 THEN <<UpstreamEntry(u, 3 + ((u - 1) \div 20))>> ELSE <<>>)

\* The response's u{i}.lists of user u: the completed entries come in two
\* MediaListGroups, the first entry and the others.
UpstreamLists(u) ==
    <<SubSeq(UpstreamCompleted(u), 1, 1),
      SubSeq(UpstreamCompleted(u), 2, Len(UpstreamCompleted(u)))>>

\* The upstream's answers: every user ok, or one user private, not found or
\* returned as a null sub-query result.
StatusChoices(n) ==
    {[u \in 1..n |-> "ok"]}
    \cup {[u \in 1..n |-> IF u = b THEN k ELSE "ok"] :
              b \in 1..n, k \in {"private", "notfound", "null"}}

Range(q) == {q[i] : i \in DOMAIN q}

\* fetchCompletedAnime(userids=batch) against the mocked upstream, when the
\* request does not exhaust its retries: the exception _make_request raises
\* (lines 76-81) or "ok".
FetchKind(batch) ==
    IF \E u \in Range(batch) : status[u] = "private" THEN "AnilistPrivateUser"
    ELSE IF \E u \in Range(batch) : status[u] = "notfound" THEN "AnilistUserNotFound"
    ELSE "ok"

\* Lines 193-200: the entries of one user's lists, list after list.
RECURSIVE Entries(_)
Entries(lists) ==
    IF lists = <<>> THEN <<>>
    ELSE Head(lists) \o Entries(Tail(lists))

\* Lines 186-203: the result dict in insertion order, as <<user, entries>> pairs;
\* a user whose u{i} is null is left out ("continue", line 192).
RECURSIVE FetchResult_StopAtNull(_)
FetchResult_StopAtNull(batch) ==
    IF batch = <<>> THEN <<>>
    ELSE IF status[Head(batch)] = "null" THEN <<>>
    ELSE <<<<Head(batch), Entries(UpstreamLists(Head(batch)))>>>>
         \o FetchResult_StopAtNull(Tail(batch))

RECURSIVE FetchResult(_)
FetchResult(batch) ==
    IF batch = <<>> THEN <<>>
    ELSE (IF status[Head(batch)] = "null" THEN <<>>
          ELSE <<<<Head(batch), Entries(UpstreamLists(Head(batch)))>>>>)
         \o FetchResult(Tail(batch))

\* Line 45: ratings[str(anime.mediaId)].append({str(user_id): anime.score})
AppendRating(r, u, anime) ==
    LET key == Str(anime.mediaId)
        e == [user |-> Str(u), score |-> anime.score]
    IN  IF key \in DOMAIN r
        THEN [r EXCEPT ![key] = Append(@, e)]
        ELSE r @@ (key :> <<e>>)

\* Lines 44-45: the loop over one user's anime.
RECURSIVE AppendUser(_, _, _)
AppendUser(r, u, animes) ==
    IF animes = <<>> THEN r
    ELSE AppendUser(AppendRating(r, u, Head(animes)), u, Tail(animes))

\* Lines 43-45: the loop over batch_anime.items().
RECURSIVE AppendBatch(_, _)
AppendBatch(r, res) ==
    IF res = <<>> THEN r
    ELSE AppendBatch(AppendUser(r, Head(res)[1], Head(res)[2]), Tail(res))

\* Line 25: math.ceil(len(user_ids) / batch_size)
TotalBatches_Floor(ids, b) == Len(ids) \div b

TotalBatches(ids, b) == (Len(ids) + b - 1) \div b

\* Lines 28-29.
StartIdx(k, b) == k * b

EndIdx(ids, k, b) == Min((k + 1) * b, Len(ids))

\* Line 30: user_ids[start_idx:end_idx]
Batch(ids, k, b) == SubSeq(ids, StartIdx(k, b) + 1, EndIdx(ids, k, b))

\* Line 48: user_ids[end_idx:]
RemainingUsers_FromStart(ids, k, b) == SubSeq(ids, StartIdx(k, b) + 1, Len(ids))

RemainingUsers(ids, k, b) == SubSeq(ids, EndIdx(ids, k, b) + 1, Len(ids))

\* Line 47: the condition of the yield.
YieldDue(k, total) == (k + 1) % CheckpointEvery = 0 \/ k = total - 1

\* Lines 36-38: where the generator goes after PrivateUser / UserNotFound:
\* "continue", the next iteration of the batch loop.
AfterSkip_Return == "end"

AfterSkip == "gen"

\* Lines 39-41: where the generator goes after AnilistRequestError: "return",
\* the end of the generator.
AfterFail_Continue == "gen"

AfterFail == "end"

\* main's "ratings": a dict whose lists are either main's own (loaded from the
\* checkpoint) or, after ratings.update(updated_ratings), the very list objects
\* of the generator, which later appends of the generator show through.
View(own, shared, gen) ==
    [k \in DOMAIN own \cup shared |-> IF k \in shared THEN gen[k] ELSE own[k]]

MainRatings == View(mainOwn, mainShared, genRatings)

\* Lines 65-72 and 52-60: the checkpoint file and what loading it gives. The
\* keys of ratings are strings already and JSON keeps integers and lists.
SaveCheckpoint(r, rem, last) ==
    [written |-> TRUE, ratings |-> r, remaining_users |-> rem, last_batch |-> last]

LoadCheckpoint(f) == <<f.ratings, f.remaining_users, f.last_batch>>

\* Lines 74-76: the result file.
SaveResults(r) == [written |-> TRUE, ratings |-> r]

\* A file that was not written, and the generator having yielded nothing.
NoCheckpoint ==
    [written |-> FALSE, ratings |-> EmptyDict, remaining_users |-> <<>>, last_batch |-> -1]

NoResults == [written |-> FALSE, ratings |-> EmptyDict]

NoYield == [ratings |-> EmptyDict, remaining |-> <<>>, batch_num |-> -1]

\* The checkpoint file a crawl is started from in --checkpoint-file mode:
\* nothing folded in, every user remaining.
FreshCheckpoint(ids) == SaveCheckpoint(EmptyDict, ids, -1)

\* One run of main in --userid-list mode with no AnilistRequestError and no
\* interruption, as a function of the batch index: lines 24-50 driven by lines
\* 94, 104-105; its value is the ratings line 111 writes. (A yield of an empty
\* dict leaves main's ratings as they are.)
RECURSIVE UninterruptedRun(_, _, _)
UninterruptedRun(gen, shared, k) ==
    IF k >= TotalBatches(users, batch_size) THEN View(EmptyDict, shared, gen)
    ELSE IF FetchKind(Batch(users, k, batch_size)) # "ok"
         THEN UninterruptedRun(gen, shared, k + 1)
         ELSE LET folded == AppendBatch(gen, FetchResult(Batch(users, k, batch_size)))
                  keys == DOMAIN folded
              IN  IF keys # {} /\ YieldDue(k, TotalBatches(users, batch_size))
                  THEN UninterruptedRun(folded, shared \cup keys, k + 1)
                  ELSE UninterruptedRun(folded, shared, k + 1)

PipeInit ==
    /\ ppc = "start"
    /\ mode \in {"list", "checkpoint"}
    /\ \E n \in 0..MaxUsers :
         /\ users = [i \in 1..n |-> i]
         /\ status \in StatusChoices(n)
    /\ batch_size \in 1..MaxBatchSize
    /\ run = 1
    /\ user_ids = <<>>
    /\ batch_num = 0
    /\ genRatings = EmptyDict
    /\ mainOwn = EmptyDict
    /\ mainShared = {}
    /\ yielded = NoYield
    /\ ckpt = IF mode = "checkpoint" THEN FreshCheckpoint(users) ELSE NoCheckpoint
    /\ resultFile = NoResults
    /\ sinceCkpt = 0
    /\ emitted = 0
    /\ skipped = {}
    /\ reqError = FALSE
    /\ exitCode = -1
    /\ fetched = <<>>
    /\ batch_anime = <<>>
    /\ savedInRun = FALSE

\* main, lines 87-101: load the user-id list or the checkpoint; then line 104
\* creates the generator, whose body starts at line 24.
StartRun ==
    /\ ppc = "start"
    /\ IF mode = "list"
       THEN /\ user_ids' = users
            /\ mainOwn' = EmptyDict
       ELSE /\ user_ids' = LoadCheckpoint(ckpt)[2]
            /\ mainOwn' = LoadCheckpoint(ckpt)[1]
    /\ mainShared' = {}
    /\ genRatings' = EmptyDict
    /\ batch_num' = 0
    /\ batch_anime' = <<>>
    /\ ppc' = "gen"
    /\ UNCHANGED <<mode, users, batch_size, status, run, yielded, ckpt, resultFile,
                   sinceCkpt, emitted, skipped, reqError, exitCode, fetched, savedInRun>>
    /\ UNCHANGED <<execVars, collectVars>>

\* Lines 34-38: the fetch raises AnilistPrivateUser or AnilistUserNotFound:
\* log and continue with the next batch.
FetchSkip ==
    /\ ppc = "gen"
    /\ batch_num < TotalBatches(user_ids, batch_size)
    /\ FetchKind(Batch(user_ids, batch_num, batch_size)) # "ok"
    /\ skipped' = skipped \cup Range(Batch(user_ids, batch_num, batch_size))
    /\ fetched' = Append(fetched, Batch(user_ids, batch_num, batch_size))
    /\ sinceCkpt' = sinceCkpt + 1
    /\ batch_num' = batch_num + 1
    /\ ppc' = AfterSkip
    /\ UNCHANGED <<mode, users, batch_size, status, run, user_ids, genRatings, mainOwn,
                   mainShared, yielded, ckpt, resultFile, emitted, reqError, exitCode,
                   batch_anime, savedInRun>>
    /\ UNCHANGED <<execVars, collectVars>>

\* Lines 39-41: the fetch raises AnilistRequestError (any fetch may exhaust its
\* retries): log and return, which ends the generator.
FetchFail ==
    /\ ppc = "gen"
    /\ batch_num < TotalBatches(user_ids, batch_size)
    /\ fetched' = Append(fetched, Batch(user_ids, batch_num, batch_size))
    /\ reqError' = TRUE
    /\ ppc' = AfterFail
    /\ UNCHANGED <<mode, users, batch_size, status, run, user_ids, batch_num, genRatings,
                   mainOwn, mainShared, yielded, ckpt, resultFile, sinceCkpt, emitted,
                   skipped, exitCode, batch_anime, savedInRun>>
    /\ UNCHANGED <<execVars, collectVars>>

\* Lines 35, 43-50: the fetch succeeds: fold the batch in, and yield when due.
FetchOk ==
    /\ ppc = "gen"
    /\ batch_num < TotalBatches(user_ids, batch_size)
    /\ FetchKind(Batch(user_ids, batch_num, batch_size)) = "ok"
    /\ fetched' = Append(fetched, Batch(user_ids, batch_num, batch_size))
    /\ batch_anime' = FetchResult(Batch(user_ids, batch_num, batch_size))
    /\ genRatings' = AppendBatch(genRatings, batch_anime')
    /\ IF YieldDue(batch_num, TotalBatches(user_ids, batch_size))
       THEN /\ yielded' = [ratings |-> genRatings',
                           remaining |-> RemainingUsers(user_ids, batch_num, batch_size),
                           batch_num |-> batch_num]
            /\ sinceCkpt' = 0
            /\ emitted' = emitted + 1
            /\ ppc' = "yield"
            /\ UNCHANGED batch_num
       ELSE /\ sinceCkpt' = sinceCkpt + 1
            /\ batch_num' = batch_num + 1
            /\ UNCHANGED <<yielded, emitted, ppc>>
    /\ UNCHANGED <<mode, users, batch_size, status, run, user_ids, mainOwn, mainShared,
                   ckpt, resultFile, skipped, reqError, exitCode, savedInRun>>
    /\ UNCHANGED <<execVars, collectVars>>

\* Line 27: range(total_batches) is exhausted: the generator ends.
GenEnd ==
    /\ ppc = "gen"
    /\ batch_num = TotalBatches(user_ids, batch_size)
    /\ ppc' = "end"
    /\ UNCHANGED <<mode, users, batch_size, status, run, user_ids, batch_num, genRatings,
                   mainOwn, mainShared, yielded, ckpt, resultFile, sinceCkpt, emitted,
                   skipped, reqError, exitCode, fetched, batch_anime,
                   savedInRun>>
    /\ UNCHANGED <<execVars, collectVars>>

\* main, lines 104-108: the body of the for loop for one yielded tuple:
\* ratings.update(updated_ratings), save_checkpoint when --checkpoint-file is
\* given; then the generator resumes at the next batch.
MainConsume ==
    /\ ppc = "yield"
    /\ mainShared' = mainShared \cup DOMAIN yielded.ratings
    /\ IF mode = "checkpoint"
       THEN /\ ckpt' = SaveCheckpoint(View(mainOwn, mainShared', genRatings),
                                      yielded.remaining, yielded.batch_num)
            /\ savedInRun' = TRUE
       ELSE UNCHANGED <<ckpt, savedInRun>>
    /\ yielded' = NoYield
    /\ batch_num' = batch_num + 1
    /\ ppc' = "gen"
    /\ UNCHANGED <<mode, users, batch_size, status, run, user_ids, genRatings, mainOwn,
                   resultFile, sinceCkpt, emitted, skipped, reqError, exitCode, fetched,
                   batch_anime>>
    /\ UNCHANGED <<execVars, collectVars>>

\* main, lines 110-112: the for loop is over: save_results, "Completed", and
\* main returns, so the process exits with status 0.
MainFinish ==
    /\ ppc = "end"
    /\ resultFile' = SaveResults(MainRatings)
    /\ exitCode' = 0
    /\ ppc' = "exit"
    /\ UNCHANGED <<mode, users, batch_size, status, run, user_ids, batch_num, genRatings,
                   mainOwn, mainShared, yielded, ckpt, sinceCkpt, emitted, skipped,
                   reqError, fetched, batch_anime, savedInRun>>
    /\ UNCHANGED <<execVars, collectVars>>

\* The process is terminated from outside after it has persisted a checkpoint.
Kill ==
    /\ ppc \in {"gen", "yield"}
    /\ savedInRun
    /\ ppc' = "killed"
    /\ UNCHANGED <<mode, users, batch_size, status, run, user_ids, batch_num, genRatings,
                   mainOwn, mainShared, yielded, ckpt, resultFile, sinceCkpt, emitted,
                   skipped, reqError, exitCode, fetched, batch_anime,
                   savedInRun>>
    /\ UNCHANGED <<execVars, collectVars>>

\* A new process is started with --checkpoint-file on the file the last run left.
Resume ==
    /\ ppc \in {"killed", "exit"}
    /\ mode = "checkpoint"
    /\ savedInRun
    /\ run < MaxRuns
    /\ run' = run + 1
    /\ ppc' = "start"
    /\ user_ids' = <<>>
    /\ batch_num' = 0
    /\ genRatings' = EmptyDict
    /\ mainOwn' = EmptyDict
    /\ mainShared' = {}
    /\ yielded' = NoYield
    /\ sinceCkpt' = 0
    /\ emitted' = 0
    /\ skipped' = {}
    /\ reqError' = FALSE
    /\ exitCode' = -1
    /\ fetched' = <<>>
    /\ batch_anime' = <<>>
    /\ savedInRun' = FALSE
    /\ UNCHANGED <<mode, users, batch_size, status, ckpt, resultFile>>
    /\ UNCHANGED <<execVars, collectVars>>

PipeNext ==
    \/ StartRun
    \/ FetchSkip
    \/ FetchFail
    \/ FetchOk
    \/ GenEnd
    \/ MainConsume
    \/ MainFinish
    \/ Kill
    \/ Resume

-----------------------------------------------------------------------------
(* collect_ratings.py and fetchAnimeCompleters: the user-set collector     *)

\* Most media ids on the seed user's lists.
MaxMedia == 2

\* The media ids of the seed user's lists and the values of --n-others.
MediaIds == 1..MaxMedia
NOthersChoices == {1, 3, 100}

\* How the two seed fetches of lines 19-20 end: both return, _make_request
\* raises, or the seed's sub-query result is null, so that the result dict of
\* fetchCompletedAnime has no key args.username.
SeedOutcomes ==
    {"ok", "AnilistPrivateUser", "AnilistUserNotFound", "AnilistRequestError",
     "KeyError:username"}

\* The orders in which a set may be iterated (line 32).
Orders(S) == {q \in [1..Cardinality(S) -> S] : Range(q) = S}

\* The user-set output file before it is written.
NoUserSet == [written |-> FALSE, users |-> {}]

\* Lines 273-288: the placeholders string.Template finds in query_template:
\* $mediaID (twice) and $perPage are written with a single "$", like
\* ${page_vars} and ${page_queries}.
TemplatePlaceholders == {"mediaID", "perPage", "page_vars", "page_queries"}

\* Lines 304-307: the names substitute() is given.
SubstituteKeys == {"page_vars", "page_queries"}

\* Template.substitute raises KeyError for the first placeholder it is given no
\* value for (in the order of the template text), and returns the text otherwise.
Substitute(placeholders, keys) ==
    IF "mediaID" \in placeholders \ keys THEN "KeyError:mediaID"
    ELSE IF "perPage" \in placeholders \ keys THEN "KeyError:perPage"
    ELSE IF placeholders \ keys # {} THEN "KeyError"
    ELSE "ok"

CollectInit ==
    /\ cpc = "start"
    /\ n_others \in NOthersChoices
    /\ seedCompleted \in SUBSET MediaIds
    /\ seedPlanning \in SUBSET MediaIds
    /\ items = <<>>
    /\ other_users = {}
    /\ users_added = 0
    /\ gpc = "none"
    /\ page = 1
    /\ requests = <<>>
    /\ outFile = NoUserSet

\* Lines 19-26: fetch the seed user's completed and planning lists and merge
\* their media ids into search_set; an exception of a fetch leaves main.
SeedFetch ==
    /\ cpc = "start"
    /\ \E o \in SeedOutcomes :
         IF o = "ok"
         THEN /\ items' \in Orders(seedCompleted \cup seedPlanning)
              /\ cpc' = "next"
         ELSE /\ cpc' = o
              /\ UNCHANGED items
    /\ UNCHANGED <<n_others, seedCompleted, seedPlanning, other_users, users_added, gpc,
                   page, requests, outFile>>
    /\ UNCHANGED <<execVars, pipeVars>>

\* Lines 32-40: the next anime of search_set: users_added = 0 and a new
\* generator, whose body has not started.
NextItem ==
    /\ cpc = "next"
    /\ items # <<>>
    /\ items' = Tail(items)
    /\ users_added' = 0
    /\ requests' = <<>>
    /\ gpc' = "created"
    /\ cpc' = "crawl"
    /\ UNCHANGED <<n_others, seedCompleted, seedPlanning, other_users, page, outFile>>
    /\ UNCHANGED <<execVars, pipeVars>>

\* Line 40 asks the generator for its first id: lines 290-310 run. page = 1,
\* the variables of the window are built, and query_template.substitute
\* raises KeyError, which neither the generator nor main catches; were the
\* query built, line 310 would request the window.
CrawlBuildQuery ==
    /\ cpc = "crawl"
    /\ gpc = "created"
    /\ page' = 1
    /\ IF Substitute(TemplatePlaceholders, SubstituteKeys) = "ok"
       THEN /\ requests' = Append(requests, page')
            /\ gpc' = "requested"
            /\ UNCHANGED cpc
       ELSE /\ gpc' = "raised"
            /\ cpc' = Substitute(TemplatePlaceholders, SubstituteKeys)
            /\ UNCHANGED requests
    /\ UNCHANGED <<n_others, seedCompleted, seedPlanning, items, other_users,
                   users_added, outFile>>
    /\ UNCHANGED <<execVars, pipeVars>>

\* Lines 63-69: search_set is exhausted: write the user set.
CollectFinish ==
    /\ cpc = "next"
    /\ items = <<>>
    /\ outFile' = [written |-> TRUE, users |-> other_users]
    /\ cpc' = "done"
    /\ UNCHANGED <<n_others, seedCompleted, seedPlanning, items, other_users,
                   users_added, gpc, page, requests>>
    /\ UNCHANGED <<execVars, pipeVars>>

CollectNext ==
    \/ SeedFetch
    \/ NextItem
    \/ CrawlBuildQuery
    \/ CollectFinish

-----------------------------------------------------------------------------
(* The specifications                                                      *)

ExecOff ==
    /\ epc = "off"
    /\ attempt = 0
    /\ posts = 0
    /\ waits = <<>>
    /\ response = Unbound
    /\ data = Unbound
    /\ cur = "none"
    /\ result = "none"
    /\ returnedBody = 0
    /\ reqNo = 0
    /\ sinceLast = Far
    /\ rlReturns = 0
    /\ lastGap = Far
    /\ totalPosts = 0
    /\ sincePost = Far
    /\ postGap = Far
    /\ allHttpFail = TRUE
    /\ sawNetErr = FALSE
    /\ call = NoCall
    /\ named = <<>>
    /\ entryRl = 0
    /\ entryPosts = 0

PipeOff ==
    /\ ppc = "off"
    /\ mode = "list"
    /\ users = <<>>
    /\ batch_size = 1
    /\ status = <<>>
    /\ run = 0
    /\ user_ids = <<>>
    /\ batch_num = 0
    /\ genRatings = EmptyDict
    /\ mainOwn = EmptyDict
    /\ mainShared = {}
    /\ yielded = NoYield
    /\ ckpt = NoCheckpoint
    /\ resultFile = NoResults
    /\ sinceCkpt = 0
    /\ emitted = 0
    /\ skipped = {}
    /\ reqError = FALSE
    /\ exitCode = -1
    /\ fetched = <<>>
    /\ batch_anime = <<>>
    /\ savedInRun = FALSE

CollectOff ==
    /\ cpc = "off"
    /\ n_others = 1
    /\ seedCompleted = {}
    /\ seedPlanning = {}
    /\ items = <<>>
    /\ other_users = {}
    /\ users_added = 0
    /\ gpc = "none"
    /\ page = 1
    /\ requests = <<>>
    /\ outFile = NoUserSet

InitExec == ExecInit /\ PipeOff /\ CollectOff

SpecExec == InitExec /\ [][ExecNext]_vars

InitPipe == PipeInit /\ ExecOff /\ CollectOff

SpecPipe == InitPipe /\ [][PipeNext]_vars

InitCollect == CollectInit /\ ExecOff /\ PipeOff

SpecCollect == InitCollect /\ [][CollectNext]_vars

-----------------------------------------------------------------------------
(* The request executor: retries, backoff, classification, spacing         *)

\* C4: when every attempt of a call fails with an HTTP error that is no
\* classified 404, the call issues exactly 10 POSTs and raises
\* AnilistRequestError; when attempt k is the first to succeed, exactly k POSTs
\* were issued and the body of attempt k is returned.
C4_RetryCount ==
    /\ (epc = "idle" /\ posts > 0 /\ allHttpFail /\ result # "returned")
           => (result = "AnilistRequestError" /\ posts = MaxRetries)
    /\ (result = "returned" /\ allHttpFail)
           => (posts = attempt + 1 /\ returnedBody = posts)

\* C5 as stated: a call that exhausts its attempts has slept 60, 120, ..., 600
\* seconds, one wait per attempt 1..10.
C5_BackoffUpTo600 ==
    result = "AnilistRequestError"
        => waits = [k \in 1..MaxRetries |-> BackoffUnit * k]

\* C5, amended: the k-th backoff sleep of a call lasts 60*k seconds, one sleep
\* follows each failed attempt that is retried, there are at most 9 of them, and
\* a call that ends with AnilistRequestError has slept 60, 120, ..., 540: no
\* sleep follows the 10th failure.
C5_LinearBackoff ==
    /\ \A k \in DOMAIN waits : waits[k] = BackoffUnit * k
    /\ Len(waits) = attempt
    /\ Len(waits) <= MaxRetries - 1
    /\ result = "AnilistRequestError"
           => waits = [k \in 1..(MaxRetries - 1) |-> BackoffUnit * k]

C5_Witness ==
    /\ epc = "idle"
    /\ result = "AnilistRequestError"
    /\ Len(waits) = MaxRetries - 1
    /\ waits[MaxRetries - 1] = 540

\* C6: an attempt that receives a 404 with message 'Private User' (resp. 'User
\* not found') ends the call at once with AnilistPrivateUser (resp.
\* AnilistUserNotFound): no sleep follows it (the sleeps are those of the
\* earlier failures), no further POST; on the first attempt, one POST in all.
C6_TerminalShortCircuit ==
    /\ cur \in {"e404private", "e404nouser"} => epc \in {"handle", "idle"}
    /\ (cur = "e404private" /\ epc = "idle") => result = "AnilistPrivateUser"
    /\ (cur = "e404nouser" /\ epc = "idle") => result = "AnilistUserNotFound"
    /\ result \in {"AnilistPrivateUser", "AnilistUserNotFound"}
           => /\ cur \in {"e404private", "e404nouser"}
              /\ posts = attempt + 1
              /\ Len(waits) = attempt
              /\ (attempt = 0 => posts = 1 /\ waits = <<>>)

C6_Witness ==
    /\ epc = "idle"
    /\ cur = "e404private"
    /\ result = "AnilistPrivateUser"
    /\ posts = 1
    /\ waits = <<>>

\* C7: a call never ends on a transport failure other than by
\* AnilistRequestError after 10 POSTs: such a failure is backed off and retried,
\* the first attempt's included.
C7_NetworkErrorRetried ==
    (epc = "idle" /\ cur = "neterr")
        => (result = "AnilistRequestError" /\ posts = MaxRetries)

\* C8: every POST follows a return of _rate_limit of its own, and two
\* consecutive returns of _rate_limit, hence two consecutive POSTs, of a client
\* are at least one second apart, across retries and across calls.
C8_RequestSpacing ==
    /\ totalPosts <= rlReturns
    /\ rlReturns <= totalPosts + 1
    /\ epc \in {"handle", "idle"} => rlReturns = totalPosts
    /\ epc = "post" => rlReturns = totalPosts + 1
    /\ rlReturns >= 2 => lastGap >= IntervalTicks
    /\ totalPosts >= 2 => postGap >= IntervalTicks

C8_Witness ==
    /\ reqNo = 2
    /\ posts = 1
    /\ totalPosts >= 2
    /\ postGap = IntervalTicks
    /\ lastGap = IntervalTicks

\* C11: a fetchPlanningAnime or fetchCompletedAnime call with both or neither
\* of its identifying arguments bound ends with ValueError before the rate
\* limiter and the network: no POST is issued for it and there is no return of
\* _rate_limit, so last_request_time is as it was when the call was made.
C11_FailFast ==
    (call.fn # "none" /\ call.a = call.b)
        => /\ epc = "idle"
           /\ result = "ValueError"
           /\ posts = 0
           /\ totalPosts = entryPosts
           /\ rlReturns = entryRl

C11_Witness ==
    /\ call.fn = "fetchPlanningAnime"
    /\ call.a
    /\ call.b
    /\ result = "ValueError"
    /\ totalPosts > 0
    /\ totalPosts = entryPosts

\* C12: when a completed-list query for K users ends with AnilistPrivateUser or
\* AnilistUserNotFound, the users the error names are the K users of the batch,
\* in batch order, and nothing else, for usernames and for ids.
C12_BatchNamed ==
    (call.fn = "fetchCompletedAnime"
     /\ result \in {"AnilistPrivateUser", "AnilistUserNotFound"})
        => /\ named = call.users
           /\ Len(named) = Len(Variables(call))

C12_Witness ==
    /\ call.fn = "fetchCompletedAnime"
    /\ call.a
    /\ call.users = <<8, 7>>
    /\ result = "AnilistPrivateUser"
    /\ named = <<8, 7>>

\* C18: a 404 that is no Private / NotFound classification (its body is not
\* JSON, or has no such message) is retried like any failure: the call does
\* not end on it except with AnilistRequestError after 10 POSTs, and a call
\* whose failures are all HTTP errors of this kind or 5xx raises nothing else.
C18_Unclassified404Retried ==
    /\ (epc = "idle" /\ cur \in {"e404other", "e404nonjson"})
           => (result = "AnilistRequestError" /\ posts = MaxRetries)
    /\ (allHttpFail /\ posts > 0)
           => result \in {"none", "returned", "AnilistRequestError"}

-----------------------------------------------------------------------------
(* The batch pipeline: resumption, RequestError, checkpoints, skipped      *)
(* batches                                                                 *)

\* C1: a run resumed from a persisted checkpoint that completes writes the
\* ratings one uninterrupted run over the full list writes.
C1_ResumeEquivalence ==
    (ppc = "exit" /\ run > 1 /\ ~reqError)
        => resultFile.ratings = UninterruptedRun(EmptyDict, {}, 0)

\* C2: a run whose fetch raised AnilistRequestError ends as a failure, with a
\* non-zero exit status.
C2_RequestErrorFatal ==
    (reqError /\ ppc = "exit") => exitCode # 0

\* C3: a checkpoint is emitted after every 20th batch and after the final
\* batch, fetched or skipped, so never more than 19 batches are processed since
\* the last emitted checkpoint, and none when the run has processed its last batch.
C3_CheckpointCadence ==
    /\ sinceCkpt <= CheckpointEvery - 1
    /\ (ppc \in {"end", "exit"} /\ ~reqError) => sinceCkpt = 0

\* C10: the ratings table holds no rating of a user of a batch skipped for
\* AnilistPrivateUser / AnilistUserNotFound; the batches are fetched in order,
\* and after a skip the pipeline is at the next batch and, unless a fetch
\* raises AnilistRequestError, fetches every later batch.
C10_WholeBatchSkip ==
    /\ \A key \in DOMAIN genRatings : \A i \in DOMAIN genRatings[key] :
           IntOf(genRatings[key][i].user) \notin skipped
    /\ \A i \in DOMAIN fetched : fetched[i] = Batch(user_ids, i - 1, batch_size)
    /\ ppc = "gen" => Len(fetched) = batch_num
    /\ (ppc \in {"end", "exit"} /\ ~reqError)
           => Len(fetched) = TotalBatches(user_ids, batch_size)

C10_Witness ==
    /\ ppc = "exit"
    /\ ~reqError
    /\ exitCode = 0
    /\ \E s \in skipped : \E key \in DOMAIN resultFile.ratings :
           \E i \in DOMAIN resultFile.ratings[key] :
               IntOf(resultFile.ratings[key][i].user) > s

\* C14: in every checkpoint the generator emits, and in every checkpoint file
\* written from one, no user with an entry in ratings is among remaining_users.
C14_RemainingDisjoint ==
    /\ \A key \in DOMAIN yielded.ratings : \A i \in DOMAIN yielded.ratings[key] :
           IntOf(yielded.ratings[key][i].user) \notin Range(yielded.remaining)
    /\ \A key \in DOMAIN ckpt.ratings : \A i \in DOMAIN ckpt.ratings[key] :
           IntOf(ckpt.ratings[key][i].user) \notin Range(ckpt.remaining_users)

C14_Witness ==
    /\ ppc = "yield"
    /\ yielded.batch_num = CheckpointEvery - 1
    /\ Len(yielded.remaining) >= 2
    /\ \E key \in DOMAIN yielded.ratings : Len(yielded.ratings[key]) >= CheckpointEvery

\* C15: a run started from a user-id list that processes every batch without
\* AnilistRequestError writes to the result file every entry of every batch
\* whose fetch succeeded, which is the table the generator has built, also when
\* the final batch or a 20th batch was skipped.
C15_ResultsComplete ==
    (ppc = "exit" /\ mode = "list" /\ ~reqError)
        => resultFile.ratings = genRatings

\* C16: the ratings persisted by a crawl only grow: whenever the checkpoint
\* file is rewritten, and when the result file is written after it, every key
\* persisted before is still there and its list has the earlier list as a
\* prefix, across resumed runs too.
C16_AppendOnly ==
    [][(ckpt' # ckpt \/ resultFile' # resultFile)
         => (\A key \in DOMAIN ckpt.ratings :
               /\ (ckpt' # ckpt =>
                      /\ key \in DOMAIN ckpt'.ratings
                      /\ Len(ckpt'.ratings[key]) >= Len(ckpt.ratings[key])
                      /\ SubSeq(ckpt'.ratings[key], 1, Len(ckpt.ratings[key]))
                             = ckpt.ratings[key])
               /\ (resultFile' # resultFile =>
                      /\ key \in DOMAIN resultFile'.ratings
                      /\ Len(resultFile'.ratings[key]) >= Len(ckpt.ratings[key])
                      /\ SubSeq(resultFile'.ratings[key], 1, Len(ckpt.ratings[key]))
                             = ckpt.ratings[key]))]_vars

\* C19: once a fetch has raised AnilistRequestError the run fetches no further
\* batch and emits no further checkpoint, and the checkpoint file stays as it
\* was last written.
C19_ErrorFreezesCheckpoint ==
    [][(reqError /\ run' = run)
         => (ckpt' = ckpt /\ fetched' = fetched /\ emitted' = emitted
             /\ batch_num' = batch_num /\ yielded' = yielded)]_vars

C19_Witness ==
    /\ reqError
    /\ ppc = "exit"
    /\ savedInRun
    /\ ckpt.last_batch = CheckpointEvery - 1
    /\ Len(ckpt.remaining_users) = 2
    /\ resultFile.written

\* C22: in a run with no AnilistRequestError the batch fetches are issued in
\* increasing k, the k-th (0-based) for user_ids[k*B : min((k+1)*B, N)], each of
\* 1 to B users; when the generator has ended there were exactly ceil(N/B) of
\* them and every user of the list is in exactly one batch.
C22_BatchPartition ==
    (ppc \in {"gen", "yield", "end", "exit", "killed"} /\ ~reqError)
        => /\ \A k \in DOMAIN fetched :
                 /\ Len(fetched[k]) \in 1..batch_size
                 /\ fetched[k]
                      = [j \in 1..(Min(k * batch_size, Len(user_ids)) - (k - 1) * batch_size)
                             |-> user_ids[(k - 1) * batch_size + j]]
           /\ ppc \in {"end", "exit"}
                 => /\ Len(fetched) * batch_size >= Len(user_ids)
                    /\ Len(fetched) > 0 => (Len(fetched) - 1) * batch_size < Len(user_ids)
                    /\ \A i \in DOMAIN user_ids :
                           Cardinality({k \in DOMAIN fetched :
                                           user_ids[i] \in Range(fetched[k])}) = 1

C22_Witness ==
    /\ ppc = "exit"
    /\ ~reqError
    /\ batch_size = 2
    /\ Len(user_ids) = 5
    /\ fetched = <<SubSeq(user_ids, 1, 2), SubSeq(user_ids, 3, 4), SubSeq(user_ids, 5, 5)>>
    /\ skipped # {}

\* C23: the dict a successful fetchCompletedAnime returns has, in batch order,
\* exactly the users of the batch whose u{i} is not null, each with its entries
\* in upstream order, so a null u{i} neither raises nor drops or alters the
\* entries of another user; in the pipeline a user whose u{i} is null has no
\* rating in the table, the checkpoint file or the result file and, once its
\* batch is fetched, is not among the remaining users of a checkpoint.
C23_NullTolerance ==
    /\ (~reqError /\ \E k \in DOMAIN fetched :
                        \A u \in Range(fetched[k]) : status[u] \in {"ok", "null"})
          => LET K == CHOOSE k \in DOMAIN fetched :
                          /\ \A u \in Range(fetched[k]) : status[u] \in {"ok", "null"}
                          /\ \A j \in DOMAIN fetched :
                                 j > k => \E u \in Range(fetched[j]) :
                                              status[u] \notin {"ok", "null"}
                 present == SelectSeq(fetched[K], LAMBDA u : status[u] # "null")
             IN  /\ Len(batch_anime) = Len(present)
                 /\ \A i \in DOMAIN present :
                        /\ batch_anime[i] = <<present[i], UpstreamCompleted(present[i])>>
                        /\ \E n \in DOMAIN genRatings[Str(1)] :
                               genRatings[Str(1)][n].user = Str(present[i])
    /\ \A u \in DOMAIN status :
          status[u] = "null"
            => /\ \A key \in DOMAIN genRatings : \A i \in DOMAIN genRatings[key] :
                      IntOf(genRatings[key][i].user) # u
               /\ \A key \in DOMAIN ckpt.ratings : \A i \in DOMAIN ckpt.ratings[key] :
                      IntOf(ckpt.ratings[key][i].user) # u
               /\ \A key \in DOMAIN resultFile.ratings :
                      \A i \in DOMAIN resultFile.ratings[key] :
                          IntOf(resultFile.ratings[key][i].user) # u
               /\ (ppc = "yield" /\ \E k \in DOMAIN fetched : u \in Range(fetched[k]))
                      => u \notin Range(yielded.remaining)
               /\ (savedInRun /\ \E k \in DOMAIN fetched :
                                     k - 1 <= ckpt.last_batch /\ u \in Range(fetched[k]))
                      => u \notin Range(ckpt.remaining_users)

C23_Witness ==
    /\ ppc = "exit"
    /\ mode = "checkpoint"
    /\ savedInRun
    /\ ~reqError
    /\ batch_size = 2
    /\ Len(user_ids) = 2
    /\ status[user_ids[1]] = "null"
    /\ fetched = <<user_ids>>
    /\ ckpt.last_batch = 0
    /\ ckpt.remaining_users = <<>>
    /\ DOMAIN resultFile.ratings # {}
    /\ Len(UpstreamLists(user_ids[2])[2]) >= 1
    /\ batch_anime = <<<<user_ids[2], UpstreamCompleted(user_ids[2])>>>>

-----------------------------------------------------------------------------
(* The user-set collector and the completer crawl                          *)

\* C9: for every n_others >= 1 the collector consumes at most n_others ids per
\* item, every consumed id is in the user set, and once the seed lists are
\* fetched the run is not ended by the crawl: it completes and writes the set.
C9_PerItemCap ==
    /\ users_added <= n_others
    /\ users_added <= Cardinality(other_users)
    /\ cpc \in {"crawl", "next", "done"} => gpc # "raised"
    /\ cpc \notin {"KeyError:mediaID", "KeyError:perPage", "KeyError", "ZeroDivisionError"}
    /\ cpc = "done" => outFile = [written |-> TRUE, users |-> other_users]

\* C13: the windows of a crawl are requested at the cursors 1, 1+P, 1+2P, ...:
\* a generator that has been asked for an id has requested its first window,
\* at page 1, and every later request is P pages after the one before it.
C13_WindowAdvance ==
    /\ \A i \in DOMAIN requests : requests[i] = 1 + (i - 1) * DefaultPagesPerQuery
    /\ gpc \notin {"none", "created"} => (Len(requests) >= 1 /\ requests[1] = 1)

====
